---- MODULE Spec2Model ----
(***************************************************************************)
(* A model of the two benchmark-comparison scripts                         *)
(*   scripts/gensummary.py  (markdown summary of base/head runs)           *)
(*   scripts/gengraph.py    (scatter / distribution plots)                 *)
(*                                                                         *)
(* Python values are modelled as follows.                                  *)
(*   list            a sequence                                            *)
(*   dict (RunData)  a record; a key the JSON object lacks is a field the  *)
(*                   record lacks                                          *)
(*   str             a sequence of symbols; the symbols "|" and "\n" are   *)
(*                   the pipe and the newline character, every other       *)
(*                   symbol is a piece of text holding neither             *)
(*   a call          Ok(v) when it returns v, Raise(e) when it raises e    *)
(***************************************************************************)
EXTENDS Integers, Sequences, FiniteSets

VARIABLES
    medianCall,   \* one call of median(xs), of either script
    deltaCall,    \* guesses_delta / time_delta of one puzzle, and of it swapped
    tableCall,    \* one call of print_table_in_markdown(headings, data)
    summary,      \* one run of gensummary.py
    graph         \* one run of gengraph.py

vars == <<medianCall, deltaCall, tableCall, summary, graph>>

\* The state of a program that is not the one under study.
Idle == [pc |-> "idle"]

None == [none |-> TRUE]

----------------------------------------------------------------------------
(* Bounds of the explored inputs *)

MaxLen == 4          \* longest argument of median
MaxVal == 2          \* greatest number in an argument of median

----------------------------------------------------------------------------
(* Python calls: a returned value or a raised exception *)

Ok(v) == [val |-> v]

Raise(e) == [exc |-> e]

IsExc(r) == "exc" \in DOMAIN r

SeqsUpTo(S, n) == UNION {[1..k -> S] : k \in 0..n}

\* seq[i] of Python, i counted from 0, a negative i from the end.
PyIndex(s, i) ==
    LET j == IF i < 0 THEN i + Len(s) ELSE i
    IN  IF j < 0 \/ j >= Len(s) THEN Raise("IndexError") ELSE Ok(s[j + 1])

----------------------------------------------------------------------------
(* sorted(): Python's sort is stable and ascending.  The sort is computed  *)
(* on the list of keys (Python computes every key before it compares) and  *)
(* yields the order as a list of input positions.                          *)

\* A mutant of InsertPos: an entry goes before the entries of equal key.
InsertPosUnstable(perm, keys, k) ==
    Cardinality({j \in DOMAIN perm : keys[perm[j]] < k})

\* Where the next entry, of key k, goes in the sorted positions perm: after
\* every entry whose key is <= k.
InsertPos(perm, keys, k) ==
    Cardinality({j \in DOMAIN perm : keys[perm[j]] <= k})

InsertAt(s, pos, x) == SubSeq(s, 1, pos) \o <<x>> \o SubSeq(s, pos + 1, Len(s))

RECURSIVE SortPerm(_, _)
SortPerm(keys, n) ==
    IF n = 0 THEN <<>>
    ELSE LET p == SortPerm(keys, n - 1)
         IN  InsertAt(p, InsertPos(p, keys, keys[n]), n)

\* sorted(items, key=...) with keys[i] the key of items[i].
sorted_by(items, keys) ==
    LET p == SortPerm(keys, Len(keys))
    IN  [i \in 1..Len(items) |-> items[p[i]]]

sorted(xs) == sorted_by(xs, xs)

----------------------------------------------------------------------------
(* median, gensummary.py:31 and gengraph.py:46 *)

\* A mutant of median: the upper median.
median_upper(xs) == PyIndex(sorted(xs), Len(xs) \div 2)

median(xs) == PyIndex(sorted(xs), (Len(xs) - 1) \div 2)

gengraph_median(xs0) ==
    LET xs == sorted(xs0)
    IN  PyIndex(xs, (Len(xs) - 1) \div 2)

----------------------------------------------------------------------------
(* Specification SpecMedian: median applied to every short list *)

MedianInit ==
    /\ medianCall \in [pc : {"call"}, xs : SeqsUpTo(0..MaxVal, MaxLen), ret : {None}]
    /\ deltaCall = Idle
    /\ tableCall = Idle
    /\ summary = Idle
    /\ graph = Idle

SummaryMedian ==
    /\ medianCall.pc = "call"
    /\ medianCall' = [medianCall EXCEPT !.pc = "gensummary", !.ret = median(medianCall.xs)]
    /\ UNCHANGED <<deltaCall, tableCall, summary, graph>>

GraphMedian ==
    /\ medianCall.pc = "call"
    /\ medianCall' = [medianCall EXCEPT !.pc = "gengraph", !.ret = gengraph_median(medianCall.xs)]
    /\ UNCHANGED <<deltaCall, tableCall, summary, graph>>

MedianNext == SummaryMedian \/ GraphMedian

SpecMedian == MedianInit /\ [][MedianNext]_vars

\* m is the lower median of xs, stated by rank and without sorting: m occurs in
\* xs, at most (n-1) div 2 elements are smaller and more than (n-1) div 2 are
\* smaller or equal.
IsLowerMedian(m, xs) ==
    LET n == Len(xs)
        below == Cardinality({i \in 1..n : xs[i] < m})
        upto  == Cardinality({i \in 1..n : xs[i] <= m})
    IN  /\ \E i \in 1..n : xs[i] = m
        /\ below <= (n - 1) \div 2
        /\ (n - 1) \div 2 < upto

Min2(a, b) == IF a <= b THEN a ELSE b

\* The rearrangements of xs.
Rearranged(xs) ==
    {[i \in 1..Len(xs) |-> xs[p[i]]] :
        p \in {q \in [1..Len(xs) -> 1..Len(xs)] : \A i, j \in 1..Len(xs) : q[i] = q[j] => i = j}}

\* C1: for a non-empty xs both medians return the lower median, the element of
\* rank (n-1) div 2 of xs in ascending order; so median([x]) = x, median([a,b])
\* is the smaller of the two, and every rearrangement of xs has the same median.
C1_LowerMedian ==
    (medianCall.pc \in {"gensummary", "gengraph"} /\ medianCall.xs # <<>>) =>
        LET xs == medianCall.xs
            r  == medianCall.ret
        IN  /\ ~IsExc(r)
            /\ IsLowerMedian(r.val, xs)
            /\ Len(xs) = 1 => r.val = xs[1]
            /\ Len(xs) = 2 => r.val = Min2(xs[1], xs[2])
            /\ \A ys \in Rearranged(xs) :
                   /\ median(ys) = r
                   /\ gengraph_median(ys) = r

\* A call of gengraph's median on an even-length list with two distinct middle
\* elements has returned.
C1_Witness ==
    /\ medianCall.pc = "gengraph"
    /\ medianCall.xs = <<2, 0, 1, 0>>

----------------------------------------------------------------------------
(* RunData and the per-puzzle metrics, gensummary.py:17-66 *)

DeltaMaxRuns == 3    \* longest run list of the puzzle whose deltas are computed

\* A run record with every RunData field.
RunData(t, a, p, g, s, c) ==
    [title |-> t, author |-> a, puzzle |-> p,
     guesses |-> g, solveElapsedTimeMs |-> s, createElapsedTimeMs |-> c]

\* run[key]
Get(run, key) == IF key \in DOMAIN run THEN Ok(run[key]) ELSE Raise("KeyError")

\* a + b and a - b of two calls, the left one evaluated first.
Add(a, b) == IF IsExc(a) THEN a ELSE IF IsExc(b) THEN b ELSE Ok(a.val + b.val)

Sub(a, b) == IF IsExc(a) THEN a ELSE IF IsExc(b) THEN b ELSE Ok(a.val - b.val)

\* [f(x) for x in ...], rs the calls f(x) in order: the first exception, or
\* the list of the values.
Collect(rs) ==
    IF \E i \in DOMAIN rs : IsExc(rs[i])
    THEN rs[CHOOSE i \in DOMAIN rs : IsExc(rs[i]) /\ \A j \in 1..(i - 1) : ~IsExc(rs[j])]
    ELSE Ok([i \in DOMAIN rs |-> rs[i].val])

\* A mutant of time: the creation time is left out.
time_solve_only(run) == Get(run, "solveElapsedTimeMs")

time(run) == Add(Get(run, "solveElapsedTimeMs"), Get(run, "createElapsedTimeMs"))

median_guesses(runs) ==
    LET c == Collect([i \in 1..Len(runs) |-> Get(runs[i], "guesses")])
    IN  IF IsExc(c) THEN c ELSE median(c.val)

median_time(runs) ==
    LET c == Collect([i \in 1..Len(runs) |-> time(runs[i])])
    IN  IF IsExc(c) THEN c ELSE median(c.val)

\* puzzle[0] and puzzle[1] of the source are puzzle[1] and puzzle[2] here.
puzzle_title(puzzle) ==
    LET r == PyIndex(puzzle[1], 0) IN IF IsExc(r) THEN r ELSE Get(r.val, "title")

puzzle_author(puzzle) ==
    LET r == PyIndex(puzzle[1], 0) IN IF IsExc(r) THEN r ELSE Get(r.val, "author")

\* A mutant of guesses_delta: base minus head.
guesses_delta_reversed(puzzle) == Sub(median_guesses(puzzle[1]), median_guesses(puzzle[2]))

guesses_delta(puzzle) == Sub(median_guesses(puzzle[2]), median_guesses(puzzle[1]))

time_delta(puzzle) == Sub(median_time(puzzle[2]), median_time(puzzle[1]))

----------------------------------------------------------------------------
(* Specification SpecDelta: the deltas of one puzzle and of the puzzle with *)
(* its base and head lists swapped                                          *)

\* Complete run records (guesses, solve, create) whose guesses, solve times,
\* create times and total times are each ordered differently.
DeltaRuns ==
    {RunData(<<"t">>, <<"a">>, <<"p">>, m[1], m[2], m[3]) :
        m \in {<<1, 2, 1>>, <<2, 0, 0>>, <<1, 0, 1>>, <<2, 1, 1>>}}

DeltaInit ==
    /\ deltaCall \in [pc : {"call"},
                      puzzle : SeqsUpTo(DeltaRuns, DeltaMaxRuns) \X SeqsUpTo(DeltaRuns, DeltaMaxRuns),
                      guesses : {None}, time : {None},
                      swapped_guesses : {None}, swapped_time : {None}]
    /\ medianCall = Idle
    /\ tableCall = Idle
    /\ summary = Idle
    /\ graph = Idle

Deltas ==
    /\ deltaCall.pc = "call"
    /\ deltaCall' = [deltaCall EXCEPT !.pc = "deltas",
                                      !.guesses = guesses_delta(deltaCall.puzzle),
                                      !.time = time_delta(deltaCall.puzzle)]
    /\ UNCHANGED <<medianCall, tableCall, summary, graph>>

SwappedDeltas ==
    /\ deltaCall.pc = "deltas"
    /\ LET swapped == <<deltaCall.puzzle[2], deltaCall.puzzle[1]>>
       IN  deltaCall' = [deltaCall EXCEPT !.pc = "swapped",
                                          !.swapped_guesses = guesses_delta(swapped),
                                          !.swapped_time = time_delta(swapped)]
    /\ UNCHANGED <<medianCall, tableCall, summary, graph>>

DeltaNext == Deltas \/ SwappedDeltas

SpecDelta == DeltaInit /\ [][DeltaNext]_vars

Range(f) == {f[i] : i \in DOMAIN f}

\* The lower median of a non-empty xs, by rank.
LowerMedianOf(xs) == CHOOSE m \in Range(xs) : IsLowerMedian(m, xs)

GuessesOf(runs) == [i \in 1..Len(runs) |-> runs[i].guesses]

TimesOf(runs) ==
    [i \in 1..Len(runs) |-> runs[i].solveElapsedTimeMs + runs[i].createElapsedTimeMs]

\* C2: for a puzzle with non-empty base and head lists, guesses_delta is the
\* lower median of the head guesses minus that of the base guesses, time_delta
\* the same over the per-run sums solve + create; a delta is positive exactly
\* when the head median is the greater; swapping base and head negates both.
C2_Deltas ==
    (deltaCall.pc \in {"deltas", "swapped"}
        /\ deltaCall.puzzle[1] # <<>> /\ deltaCall.puzzle[2] # <<>>) =>
        LET base == deltaCall.puzzle[1]
            head == deltaCall.puzzle[2]
            bg == LowerMedianOf(GuessesOf(base))
            hg == LowerMedianOf(GuessesOf(head))
            bt == LowerMedianOf(TimesOf(base))
            ht == LowerMedianOf(TimesOf(head))
        IN  /\ deltaCall.guesses = Ok(hg - bg)
            /\ deltaCall.time = Ok(ht - bt)
            /\ deltaCall.guesses.val > 0 <=> hg > bg
            /\ deltaCall.time.val > 0 <=> ht > bt
            /\ deltaCall.pc = "swapped" =>
                   /\ deltaCall.swapped_guesses = Ok(0 - deltaCall.guesses.val)
                   /\ deltaCall.swapped_time = Ok(0 - deltaCall.time.val)

\* Both deltas of a puzzle with several runs a side are non-zero and of
\* opposite sign, and the swapped deltas have been computed.
C2_Witness ==
    /\ deltaCall.pc = "swapped"
    /\ Len(deltaCall.puzzle[1]) = 3 /\ Len(deltaCall.puzzle[2]) = 2
    /\ ~IsExc(deltaCall.guesses) /\ ~IsExc(deltaCall.time)
    /\ deltaCall.guesses.val > 0
    /\ deltaCall.time.val < 0

----------------------------------------------------------------------------
(* Text and print_table_in_markdown, gensummary.py:69-76 *)

MaxCols == 2         \* most columns of a printed table
MaxRows == 2         \* most data rows of a printed table

\* sep.join(cells)
RECURSIVE Join(_, _)
Join(cells, sep) ==
    IF cells = <<>> THEN <<>>
    ELSE IF Len(cells) = 1 THEN cells[1]
    ELSE cells[1] \o sep \o Join(Tail(cells), sep)

\* A mutant of PrintLine: the closing pipe of a table line is left out.
PrintLineOpen(cells) == <<"|">> \o Join(cells, <<"|">>) \o <<"\n">>

\* print("|" + "|".join(cells) + "|")
PrintLine(cells) == <<"|">> \o Join(cells, <<"|">>) \o <<"|", "\n">>

RECURSIVE PrintRows(_)
PrintRows(data) ==
    IF data = <<>> THEN <<>> ELSE PrintLine(data[1]) \o PrintRows(Tail(data))

\* What the call writes to standard output, or the AssertionError it raises
\* before it writes anything.
print_table_in_markdown(headings, data) ==
    IF data = <<>> THEN Raise("AssertionError")
    ELSE IF Len(headings) # Len(data[1]) THEN Raise("AssertionError")
    ELSE Ok(PrintLine(headings)
            \o PrintLine([i \in 1..Len(headings) |-> <<"-">>])
            \o PrintRows(data)
            \o <<"\n">>)

----------------------------------------------------------------------------
(* Specification SpecTable: one call of print_table_in_markdown on a header *)
(* list and a rectangular grid, whose width may differ from the header's    *)

HeadingCells == {<<"h">>, <<"|">>}

TableCells == {<<"x">>, <<"x", "|", "y">>, <<"\n">>}

TableInit ==
    /\ tableCall \in [pc : {"call"},
                      headings : SeqsUpTo(HeadingCells, MaxCols),
                      data : UNION {SeqsUpTo([1..w -> TableCells], MaxRows) : w \in 0..MaxCols},
                      out : {<<>>}, ret : {None}]
    /\ medianCall = Idle
    /\ deltaCall = Idle
    /\ summary = Idle
    /\ graph = Idle

PrintTable ==
    /\ tableCall.pc = "call"
    /\ LET r == print_table_in_markdown(tableCall.headings, tableCall.data)
       IN  tableCall' = [tableCall EXCEPT !.pc = IF IsExc(r) THEN "raised" ELSE "returned",
                                          !.out = IF IsExc(r) THEN <<>> ELSE r.val,
                                          !.ret = IF IsExc(r) THEN r ELSE Ok(None)]
    /\ UNCHANGED <<medianCall, deltaCall, summary, graph>>

TableNext == PrintTable

SpecTable == TableInit /\ [][TableNext]_vars

\* The lines of a text, each ended by a newline (a last line may lack it).
RECURSIVE SplitLines(_)
SplitLines(text) ==
    IF text = <<>> THEN <<>>
    ELSE IF \E i \in 1..Len(text) : text[i] = "\n"
    THEN LET i == CHOOSE k \in 1..Len(text) :
                      text[k] = "\n" /\ \A j \in 1..(k - 1) : text[j] # "\n"
         IN  <<SubSeq(text, 1, i - 1)>> \o SplitLines(SubSeq(text, i + 1, Len(text)))
    ELSE <<text>>

Pipes(line) == Cardinality({i \in 1..Len(line) : line[i] = "|"})

Plain(cell) == \A i \in 1..Len(cell) : cell[i] \notin {"|", "\n"}

\* The argument is a header list and a non-empty grid whose rows all have the
\* header's length.
Rectangular(headings, data) ==
    /\ data # <<>>
    /\ \A r \in 1..Len(data) : Len(data[r]) = Len(headings)

\* The lines of the output but for the blank line that ends it.
TableLines(out) ==
    LET ls == SplitLines(out)
    IN  IF ls # <<>> /\ ls[Len(ls)] = <<>> THEN SubSeq(ls, 1, Len(ls) - 1) ELSE ls

\* C6 as claimed, read in its favour (the closing blank line is not counted
\* and the table has a column): for every non-empty header list and every
\* non-empty grid of cells whose rows have the header's length, the output has
\* rows+2 lines, each with len(headings)+1 pipes.
C6_AsClaimed ==
    (/\ tableCall.pc # "call"
     /\ Rectangular(tableCall.headings, tableCall.data)
     /\ tableCall.headings # <<>>) =>
        LET ls == TableLines(tableCall.out)
        IN  /\ tableCall.pc = "returned"
            /\ Len(ls) = Len(tableCall.data) + 2
            /\ \A i \in 1..Len(ls) : Pipes(ls[i]) = Len(tableCall.headings) + 1

\* C6 amended: when moreover the header list is non-empty and no heading and
\* no cell holds a pipe or a newline, the output is rows+2 lines, each with
\* len(headings)+1 pipes (the header, a line of one dash per column, a line per
\* row), followed by one blank line.
C6_Table ==
    (/\ tableCall.pc # "call"
     /\ Rectangular(tableCall.headings, tableCall.data)
     /\ tableCall.headings # <<>>
     /\ \A c \in 1..Len(tableCall.headings) : Plain(tableCall.headings[c])
     /\ \A r \in 1..Len(tableCall.data) :
            \A c \in 1..Len(tableCall.data[r]) : Plain(tableCall.data[r][c])) =>
        LET ls == SplitLines(tableCall.out)
            n  == Len(tableCall.data)
            w  == Len(tableCall.headings)
        IN  /\ tableCall.pc = "returned"
            /\ Len(ls) = n + 3
            /\ ls[n + 3] = <<>>
            /\ \A i \in 1..(n + 2) : Pipes(ls[i]) = w + 1
            /\ Cardinality({k \in 1..Len(ls[2]) : ls[2][k] = "-"}) = w
            /\ \A k \in 1..Len(ls[2]) : ls[2][k] \in {"-", "|"}

\* A two-column, two-row table of plain cells has been printed.
C6_Witness ==
    /\ tableCall.pc = "returned"
    /\ tableCall.headings = <<(<<"h">>), (<<"h">>)>>
    /\ tableCall.data = <<(<<(<<"x">>), (<<"x">>)>>), (<<(<<"x">>), (<<"x">>)>>)>>

----------------------------------------------------------------------------
(* gensummary.py, the script: lines 28 and 79-189 *)

MaxPuzzles == 4      \* most puzzles of a well-formed input document
TopN == 3            \* entries of a slice by_guesses[:3], by_guesses[-3:]

Min(a, b) == IF a <= b THEN a ELSE b

Max(a, b) == IF a >= b THEN a ELSE b

\* print(text): the text and a newline
Emit(text) == text \o <<"\n">>

Digit(d) == <<"0", "1", "2", "3", "4", "5", "6", "7", "8", "9">>[d + 1]

RECURSIVE Digits(_)
Digits(n) == IF n < 10 THEN <<Digit(n)>> ELSE Digits(n \div 10) \o <<Digit(n % 10)>>

\* str(n) of an integer
str(n) == IF n < 0 THEN <<"-">> \o Digits(0 - n) ELSE Digits(n)

\* str(call)
StrOf(r) == IF IsExc(r) THEN r ELSE Ok(str(r.val))

\* A mutant of puzzle_localhost_link: a key the record lacks reads as "?".
puzzle_localhost_link_lenient(puzzle) ==
    LET r == PyIndex(puzzle[1], 0)
        get(key) == IF key \in DOMAIN r.val THEN r.val[key] ELSE <<"?">>
    IN  IF IsExc(r) THEN r
        ELSE Ok(<<"[">> \o get("title") \o <<" by ">> \o get("author")
                \o <<"](http://localhost:8080/?load=">> \o get("puzzle") \o <<")">>)

puzzle_localhost_link(puzzle) ==
    LET t == puzzle_title(puzzle)
        a == puzzle_author(puzzle)
        r == PyIndex(puzzle[1], 0)
        p == IF IsExc(r) THEN r ELSE Get(r.val, "puzzle")
    IN  IF IsExc(t) THEN t
        ELSE IF IsExc(a) THEN a
        ELSE IF IsExc(p) THEN p
        ELSE Ok(<<"[">> \o t.val \o <<" by ">> \o a.val
                \o <<"](http://localhost:8080/?load=">> \o p.val \o <<")">>)

Reverse(s) == [i \in 1..Len(s) |-> s[Len(s) + 1 - i]]

\* A mutant of FirstN: one entry more.
FirstNPlusOne(s) == SubSeq(s, 1, Min(TopN + 1, Len(s)))

\* s[:3]
FirstN(s) == SubSeq(s, 1, Min(TopN, Len(s)))

\* s[-3:]
LastN(s) == SubSeq(s, Max(1, Len(s) - TopN + 1), Len(s))

\* The deltas are those computed for the sort: none raises here.
best_guesses(by_guesses) ==
    SelectSeq(FirstN(by_guesses), LAMBDA puzzle : guesses_delta(puzzle).val < 0)

worst_guesses(by_guesses) ==
    Reverse(SelectSeq(LastN(by_guesses), LAMBDA puzzle : guesses_delta(puzzle).val > 0))

best_time(by_time) ==
    SelectSeq(FirstN(by_time), LAMBDA puzzle : time_delta(puzzle).val < 0)

worst_time(by_time) ==
    Reverse(SelectSeq(LastN(by_time), LAMBDA puzzle : time_delta(puzzle).val > 0))

GuessesHeadings ==
    <<(<<"localhost puzzle link">>), (<<"Median base guesses">>),
      (<<"Median head guesses">>), (<<"Guesses delta">>)>>

TimeHeadings ==
    <<(<<"localhost puzzle link">>), (<<"Median base time">>),
      (<<"Median head time">>), (<<"Time delta">>)>>

\* The row of one puzzle, gensummary.py:106-111 and 131-136.
guesses_row(puzzle) ==
    Collect(<<puzzle_localhost_link(puzzle),
              StrOf(median_guesses(puzzle[1])),
              StrOf(median_guesses(puzzle[2])),
              StrOf(guesses_delta(puzzle))>>)

\* The row of one puzzle, gensummary.py:156-161 and 181-186.
time_row(puzzle) ==
    Collect(<<puzzle_localhost_link(puzzle),
              StrOf(median_time(puzzle[1])),
              StrOf(median_time(puzzle[2])),
              StrOf(time_delta(puzzle))>>)

\* A mutant of EmitSection: the table is printed whether or not a puzzle was
\* selected.
EmitSectionUnguarded(selected, noneMsg, someMsg, headings, rows) ==
    LET pre == Emit(someMsg) \o Emit(<<>>)
    IN  IF IsExc(rows) THEN [out |-> pre, exc |-> rows]
        ELSE LET t == print_table_in_markdown(headings, rows.val)
             IN  IF IsExc(t) THEN [out |-> pre, exc |-> t]
                 ELSE [out |-> pre \o t.val, exc |-> None]

\* if not selected: print(noneMsg) else: print(someMsg); print(); the rows are
\* built; print_table_in_markdown(headings, rows).  rows is the call that
\* builds the rows.  Yields what is written and the exception that ends it.
EmitSection(selected, noneMsg, someMsg, headings, rows) ==
    IF selected = <<>> THEN [out |-> Emit(noneMsg), exc |-> None]
    ELSE LET pre == Emit(someMsg) \o Emit(<<>>)
         IN  IF IsExc(rows) THEN [out |-> pre, exc |-> rows]
             ELSE LET t == print_table_in_markdown(headings, rows.val)
                  IN  IF IsExc(t) THEN [out |-> pre, exc |-> t]
                      ELSE [out |-> pre \o t.val, exc |-> None]

\* The script after json.load(sys.stdin).
Loaded(data) ==
    [pc |-> "loaded", data |-> data, stdout |-> <<>>, exc |-> None,
     by_guesses |-> <<>>, by_time |-> <<>>,
     best_guesses |-> <<>>, worst_guesses |-> <<>>,
     best_time |-> <<>>, worst_time |-> <<>>]

\* by_guesses = sorted(data, key=guesses_delta), gensummary.py:80-83
SortByGuesses ==
    /\ summary.pc = "loaded"
    /\ LET keys == Collect([i \in 1..Len(summary.data) |-> guesses_delta(summary.data[i])])
       IN  summary' = IF IsExc(keys)
                      THEN [summary EXCEPT !.pc = "raised", !.exc = keys]
                      ELSE [summary EXCEPT !.pc = "by_guesses",
                                           !.by_guesses = sorted_by(summary.data, keys.val)]
    /\ UNCHANGED <<medianCall, deltaCall, tableCall, graph>>

\* by_time = sorted(data, key=time_delta), gensummary.py:86-89
SortByTime ==
    /\ summary.pc = "by_guesses"
    /\ LET keys == Collect([i \in 1..Len(summary.data) |-> time_delta(summary.data[i])])
       IN  summary' = IF IsExc(keys)
                      THEN [summary EXCEPT !.pc = "raised", !.exc = keys]
                      ELSE [summary EXCEPT !.pc = "by_time",
                                           !.by_time = sorted_by(summary.data, keys.val)]
    /\ UNCHANGED <<medianCall, deltaCall, tableCall, graph>>

\* gensummary.py:91-114
BestGuesses ==
    /\ summary.pc = "by_time"
    /\ LET sel == best_guesses(summary.by_guesses)
           e == EmitSection(sel,
                            <<"**No puzzles decreased in guesses.**">>,
                            <<"Biggest decrease in guesses:">>,
                            GuessesHeadings,
                            Collect([i \in 1..Len(sel) |-> guesses_row(sel[i])]))
       IN  summary' = [summary EXCEPT
                          !.best_guesses = sel,
                          !.stdout = @ \o Emit(<<"## Guesses summary">>) \o e.out,
                          !.pc = IF e.exc = None THEN "best_guesses" ELSE "raised",
                          !.exc = e.exc]
    /\ UNCHANGED <<medianCall, deltaCall, tableCall, graph>>

\* gensummary.py:116-139
WorstGuesses ==
    /\ summary.pc = "best_guesses"
    /\ LET sel == worst_guesses(summary.by_guesses)
           e == EmitSection(sel,
                            <<"**No puzzles increased in guesses.**">>,
                            <<"Biggest increase in guesses:">>,
                            GuessesHeadings,
                            Collect([i \in 1..Len(sel) |-> guesses_row(sel[i])]))
       IN  summary' = [summary EXCEPT
                          !.worst_guesses = sel,
                          !.stdout = @ \o e.out,
                          !.pc = IF e.exc = None THEN "worst_guesses" ELSE "raised",
                          !.exc = e.exc]
    /\ UNCHANGED <<medianCall, deltaCall, tableCall, graph>>

\* gensummary.py:141-164
BestTime ==
    /\ summary.pc = "worst_guesses"
    /\ LET sel == best_time(summary.by_time)
           e == EmitSection(sel,
                            <<"**No puzzles decreased in time.**">>,
                            <<"Biggest decrease in time:">>,
                            TimeHeadings,
                            Collect([i \in 1..Len(sel) |-> time_row(sel[i])]))
       IN  summary' = [summary EXCEPT
                          !.best_time = sel,
                          !.stdout = @ \o Emit(<<"## Time summary">>) \o e.out,
                          !.pc = IF e.exc = None THEN "best_time" ELSE "raised",
                          !.exc = e.exc]
    /\ UNCHANGED <<medianCall, deltaCall, tableCall, graph>>

\* gensummary.py:166-189
WorstTime ==
    /\ summary.pc = "best_time"
    /\ LET sel == worst_time(summary.by_time)
           e == EmitSection(sel,
                            <<"**No puzzles increased in time.**">>,
                            <<"Biggest increase in time:">>,
                            TimeHeadings,
                            Collect([i \in 1..Len(sel) |-> time_row(sel[i])]))
       IN  summary' = [summary EXCEPT
                          !.worst_time = sel,
                          !.stdout = @ \o e.out,
                          !.pc = IF e.exc = None THEN "done" ELSE "raised",
                          !.exc = e.exc]
    /\ UNCHANGED <<medianCall, deltaCall, tableCall, graph>>

SummaryNext ==
    \/ SortByGuesses
    \/ SortByTime
    \/ BestGuesses
    \/ WorstGuesses
    \/ BestTime
    \/ WorstTime

----------------------------------------------------------------------------
(* Specification Spec: gensummary.py on well-formed documents.  Every puzzle *)
(* has one base and one head run; the title of puzzle i is str(i), so that   *)
(* a listed puzzle tells its place in the document.                          *)

\* The (guesses delta, time delta) of the puzzles of a document.
DeltaPairs ==
    {<<-2, 1>>, <<-1, -1>>, <<0, -2>>, <<1, 0>>, <<2, 2>>}

\* Puzzle i of a document, of deltas d: base guesses 5 and base time 3 + 1.
PuzzleOf(i, d) ==
    << <<RunData(str(i), <<"a">>, <<"p">>, 5, 3, 1)>>,
       <<RunData(str(i), <<"a">>, <<"p">>, 5 + d[1], 3 + d[2], 1)>> >>

Documents ==
    {[i \in 1..Len(ds) |-> PuzzleOf(i, ds[i])] : ds \in SeqsUpTo(DeltaPairs, MaxPuzzles)}

Init ==
    /\ summary \in {Loaded(data) : data \in Documents}
    /\ medianCall = Idle
    /\ deltaCall = Idle
    /\ tableCall = Idle
    /\ graph = Idle

Next == SummaryNext

Spec == Init /\ [][Next]_vars

\* How far the script has come.
PcRank ==
    [loaded |-> 0, by_guesses |-> 1, by_time |-> 2, best_guesses |-> 3,
     worst_guesses |-> 4, best_time |-> 5, done |-> 6, raised |-> -1, idle |-> -1]

Reached(step) == PcRank[summary.pc] >= PcRank[step]

\* The deltas of a puzzle, by rank and without the script's functions.
GDelta(puzzle) ==
    LowerMedianOf(GuessesOf(puzzle[2])) - LowerMedianOf(GuessesOf(puzzle[1]))

TDelta(puzzle) ==
    LowerMedianOf(TimesOf(puzzle[2])) - LowerMedianOf(TimesOf(puzzle[1]))

\* The place of a puzzle in the input document (titles tell puzzles apart).
PosOf(puzzle) == CHOOSE i \in 1..Len(summary.data) : summary.data[i] = puzzle

Listed(list) ==
    /\ Len(list) <= 3
    /\ \A i \in 1..Len(list) : list[i] \in Range(summary.data)
    /\ \A i, j \in 1..Len(list) : list[i] = list[j] => i = j

Unlisted(list) == Range(summary.data) \ Range(list)

\* A "most improved" list for the delta D.
MostImproved(list, D(_)) ==
    /\ Listed(list)
    /\ \A i \in 1..Len(list) : D(list[i]) < 0
    /\ \A i, j \in 1..Len(list) : i < j => D(list[i]) <= D(list[j])
    /\ \A q \in Unlisted(list) :
           D(q) < 0 => \A i \in 1..Len(list) : D(q) >= D(list[i])

\* A "most regressed" list for the delta D.
MostRegressed(list, D(_)) ==
    /\ Listed(list)
    /\ \A i \in 1..Len(list) : D(list[i]) > 0
    /\ \A i, j \in 1..Len(list) : i < j => D(list[i]) >= D(list[j])
    /\ \A q \in Unlisted(list) :
           D(q) > 0 => \A i \in 1..Len(list) : D(q) <= D(list[i])

\* C3: each "most improved" list has at most 3 entries, all of strictly
\* negative delta, in ascending order of delta, and no unlisted puzzle of
\* negative delta has a smaller delta than a listed one; each "most regressed"
\* list likewise with positive deltas in descending order; and the one-puzzle
\* document with base guesses 5 and head guesses 3 has that puzzle, of delta -2,
\* in best_guesses.
C3_TopThree ==
    /\ Reached("best_guesses") => MostImproved(summary.best_guesses, GDelta)
    /\ Reached("worst_guesses") => MostRegressed(summary.worst_guesses, GDelta)
    /\ Reached("best_time") => MostImproved(summary.best_time, TDelta)
    /\ Reached("done") => MostRegressed(summary.worst_time, TDelta)
    /\ (/\ Reached("best_guesses")
        /\ Len(summary.data) = 1
        /\ GuessesOf(summary.data[1][1]) = <<5>>
        /\ GuessesOf(summary.data[1][2]) = <<3>>) =>
           /\ summary.best_guesses = <<summary.data[1]>>
           /\ guesses_delta(summary.data[1]) = Ok(-2)

\* The script has ended on a document of four puzzles, each of them with fewer
\* guesses at head and not all by the same amount, some with more time and
\* some with less: three are listed in best_guesses and one is left out, and
\* both time lists have entries.
C3_Witness ==
    /\ summary.pc = "done"
    /\ Len(summary.data) = 4
    /\ \A i \in 1..4 : GDelta(summary.data[i]) < 0
    /\ \E i, j \in 1..4 : GDelta(summary.data[i]) # GDelta(summary.data[j])
    /\ Len(summary.best_guesses) = 3
    /\ summary.worst_guesses = <<>>
    /\ summary.best_time # <<>>
    /\ summary.worst_time # <<>>

\* Listed puzzles of equal delta stand in the order of the document.
InInputOrder(list, D(_)) ==
    \A i, j \in 1..Len(list) :
        (i < j /\ D(list[i]) = D(list[j])) => PosOf(list[i]) < PosOf(list[j])

\* Listed puzzles of equal delta stand in the reverse of the document's order.
InReverseInputOrder(list, D(_)) ==
    \A i, j \in 1..Len(list) :
        (i < j /\ D(list[i]) = D(list[j])) => PosOf(list[i]) > PosOf(list[j])

\* Of the puzzles of one delta the listed ones come first in the document.
KeepsEarliest(list, D(_)) ==
    \A q \in Unlisted(list) : \A i \in 1..Len(list) :
        D(q) = D(list[i]) => PosOf(list[i]) < PosOf(q)

\* Of the puzzles of one delta the listed ones come last in the document.
KeepsLatest(list, D(_)) ==
    \A q \in Unlisted(list) : \A i \in 1..Len(list) :
        D(q) = D(list[i]) => PosOf(list[i]) > PosOf(q)

\* C4 as claimed: in each of the four lists two listed puzzles of equal delta
\* stand in the order they have in the input document.
C4_AsClaimed ==
    /\ Reached("best_guesses") => InInputOrder(summary.best_guesses, GDelta)
    /\ Reached("worst_guesses") => InInputOrder(summary.worst_guesses, GDelta)
    /\ Reached("best_time") => InInputOrder(summary.best_time, TDelta)
    /\ Reached("done") => InInputOrder(summary.worst_time, TDelta)

\* C4 amended: in best_guesses and best_time listed puzzles of equal delta
\* stand in input order, and of equal-delta puzzles across the 3-entry boundary
\* the earliest of the document are kept; in worst_guesses and worst_time
\* (cut from the end of the sorted list and then reversed) they stand in the
\* reverse of input order, and the latest of the document are kept.
C4_TieOrder ==
    /\ Reached("best_guesses") =>
           /\ InInputOrder(summary.best_guesses, GDelta)
           /\ KeepsEarliest(summary.best_guesses, GDelta)
    /\ Reached("worst_guesses") =>
           /\ InReverseInputOrder(summary.worst_guesses, GDelta)
           /\ KeepsLatest(summary.worst_guesses, GDelta)
    /\ Reached("best_time") =>
           /\ InInputOrder(summary.best_time, TDelta)
           /\ KeepsEarliest(summary.best_time, TDelta)
    /\ Reached("done") =>
           /\ InReverseInputOrder(summary.worst_time, TDelta)
           /\ KeepsLatest(summary.worst_time, TDelta)

\* The script has ended on four puzzles of the same deltas, guesses down and
\* time up: each list holds three of them and leaves one out.
C4_Witness ==
    /\ summary.pc = "done"
    /\ Len(summary.data) = 4
    /\ \A i \in 1..4 : GDelta(summary.data[i]) = -2 /\ TDelta(summary.data[i]) = 1
    /\ Len(summary.best_guesses) = 3
    /\ Len(summary.worst_time) = 3

CountLine(ls, line) == Cardinality({i \in 1..Len(ls) : ls[i] = line})

IsTableLine(line) == line # <<>> /\ line[1] = "|"

LineOf(ls, line) == CHOOSE i \in 1..Len(ls) : ls[i] = line

\* The table lines of ls that follow the line marker and the blank line
\* after it.
TableLinesAfter(ls, marker) ==
    LET first == LineOf(ls, marker) + 2
    IN  Cardinality({k \in first..Len(ls) : \A j \in first..k : IsTableLine(ls[j])})

\* The puzzles that qualify: sign = -1 those whose delta D went down, sign = 1
\* those whose delta went up.
Qualifying(D(_), sign) ==
    {i \in 1..Len(summary.data) : sign * D(summary.data[i]) > 0}

\* Row k of the table after marker is the row of puzzle: it starts with the
\* link, which starts with the title.
RowNames(ls, marker, k, puzzle) ==
    LET line == ls[LineOf(ls, marker) + 3 + k]
        title == puzzle[1][1].title
    IN  /\ Len(line) >= 2 + Len(title)
        /\ SubSeq(line, 1, 2 + Len(title)) = <<"|", "[">> \o title

\* What one category has written to the lines ls once its step is reached:
\* the message and no table when no puzzle qualifies, else a table of one row
\* per listed puzzle, the listed puzzles being the qualifying ones up to three.
CategoryWritten(ls, step, noneMsg, someMsg, list, D(_), sign) ==
    IF ~Reached(step)
    THEN CountLine(ls, noneMsg) = 0 /\ CountLine(ls, someMsg) = 0
    ELSE IF Qualifying(D, sign) = {}
    THEN CountLine(ls, noneMsg) = 1 /\ CountLine(ls, someMsg) = 0 /\ list = <<>>
    ELSE /\ CountLine(ls, noneMsg) = 0
         /\ CountLine(ls, someMsg) = 1
         /\ Len(list) = Min(3, Cardinality(Qualifying(D, sign)))
         /\ TableLinesAfter(ls, someMsg) = Len(list) + 2
         /\ \A k \in 1..Len(list) : RowNames(ls, someMsg, k, list[k])

TableLinesOf(step, list) == IF Reached(step) /\ list # <<>> THEN Len(list) + 2 ELSE 0

----------------------------------------------------------------------------
(* Specification SpecFaulty: gensummary.py on documents that may have empty *)
(* run lists and run records that lack a field                              *)

FaultyMaxPuzzles == 2    \* most puzzles of a document that may be malformed

Fields ==
    {"title", "author", "puzzle", "guesses", "solveElapsedTimeMs", "createElapsedTimeMs"}

NumberFields == {"guesses", "solveElapsedTimeMs", "createElapsedTimeMs"}

LinkFields == {"title", "author", "puzzle"}

\* A run record without the key f.
Without(run, f) == [k \in (DOMAIN run) \ {f} |-> run[k]]

\* The puzzles that may stand at place i of a document: well-formed ones
\* (guesses down, nothing changed, time up) and ones with an empty list or a
\* record that lacks a field, at a place the script reads or does not read.
FaultyPuzzles(i) ==
    LET B  == RunData(str(i), <<"a">>, <<"p">>, 5, 3, 1)
        Hd == RunData(str(i), <<"a">>, <<"p">>, 4, 3, 1)   \* guesses down
        Hs == RunData(str(i), <<"a">>, <<"p">>, 5, 3, 1)   \* the same
        Hu == RunData(str(i), <<"a">>, <<"p">>, 5, 4, 1)   \* time up
    IN  { << <<B>>, <<Hd>> >>,
          << <<B>>, <<Hs>> >>,
          << <<B>>, <<Hu>> >>,
          << <<>>, <<Hd>> >>,
          << <<B>>, <<>> >>,
          << <<Without(B, "title")>>, <<Hd>> >>,
          << <<Without(B, "title")>>, <<Hs>> >>,
          << <<Without(B, "author")>>, <<Hu>> >>,
          << <<Without(B, "puzzle")>>, <<Hd>> >>,
          << <<Without(B, "guesses")>>, <<Hd>> >>,
          << <<B>>, <<Without(Hd, "solveElapsedTimeMs")>> >>,
          << <<Without(B, "createElapsedTimeMs")>>, <<Hs>> >>,
          << <<B, Without(B, "title")>>, <<Hd>> >>,
          << <<B>>, <<Without(Hd, "title")>> >> }

RECURSIVE FaultyDocuments(_)
FaultyDocuments(n) ==
    IF n = 0 THEN {<<>>}
    ELSE LET shorter == FaultyDocuments(n - 1)
         IN  shorter \cup {Append(d, q) : d \in {e \in shorter : Len(e) = n - 1},
                                          q \in FaultyPuzzles(n)}

FaultyInit ==
    /\ summary \in {Loaded(data) : data \in FaultyDocuments(FaultyMaxPuzzles)}
    /\ medianCall = Idle
    /\ deltaCall = Idle
    /\ tableCall = Idle
    /\ graph = Idle

SpecFaulty == FaultyInit /\ [][SummaryNext]_vars

\* The run records of the document.
RunsOf(data) ==
    UNION {Range(data[i][1]) \cup Range(data[i][2]) : i \in 1..Len(data)}

\* Some run list is empty.
SomeListEmpty(data) == \E i \in 1..Len(data) : data[i][1] = <<>> \/ data[i][2] = <<>>

\* Some list is empty or some record lacks guesses, solveElapsedTimeMs or
\* createElapsedTimeMs.
MetricFault(data) ==
    \/ SomeListEmpty(data)
    \/ \E r \in RunsOf(data) : \E f \in NumberFields : f \notin DOMAIN r

\* Some list is empty or some record lacks a RunData field.
Malformed(data) ==
    \/ SomeListEmpty(data)
    \/ \E r \in RunsOf(data) : \E f \in Fields : f \notin DOMAIN r

\* The first base run of the puzzle lacks title, author or puzzle.
LinkFault(puzzle) == \E f \in LinkFields : f \notin DOMAIN puzzle[1][1]

\* C8 as claimed: whenever the run has ended in an uncaught error, nothing has
\* been written to standard output.
C8_AsClaimed == summary.pc = "raised" => summary.stdout = <<>>

\* C8 amended: a run that ends in the error of an empty run list or of a record
\* without guesses, solveElapsedTimeMs or createElapsedTimeMs has written
\* nothing (the error is raised while sorting, before the first print); a run
\* that ends in the error of a record without title, author or puzzle has
\* written at least the heading "## Guesses summary" and the line that
\* announces a table: its output is partial.
C8_PartialOutput ==
    summary.pc = "raised" =>
        IF MetricFault(summary.data)
        THEN /\ summary.stdout = <<>>
             /\ summary.exc \in {Raise("KeyError"), Raise("IndexError")}
        ELSE LET ls == SplitLines(summary.stdout)
             IN  /\ summary.exc = Raise("KeyError")
                 /\ Len(ls) >= 3
                 /\ ls[1] = <<"## Guesses summary">>
                 /\ ls[Len(ls)] = <<>>
                 /\ ls[Len(ls) - 1] \in {<<"Biggest decrease in guesses:">>,
                                        <<"Biggest increase in guesses:">>,
                                        <<"Biggest decrease in time:">>,
                                        <<"Biggest increase in time:">>}

\* A run has ended in an error, of a record without a link field, after it
\* wrote a whole table.
C8_Witness ==
    /\ summary.pc = "raised"
    /\ ~MetricFault(summary.data)
    /\ \E i \in 1..Len(summary.stdout) : summary.stdout[i] = "-"

\* C9 as claimed: a document with an empty run list or with a run record that
\* lacks a RunData field never makes the run complete normally.
C9_AsClaimed == Malformed(summary.data) => summary.pc # "done"

AllListed ==
    Range(summary.best_guesses) \cup Range(summary.worst_guesses)
        \cup Range(summary.best_time) \cup Range(summary.worst_time)

\* C9 amended: median of an empty sequence raises IndexError; a document with
\* an empty run list or with a record that lacks guesses, solveElapsedTimeMs
\* or createElapsedTimeMs never gets past the two sorts and never completes;
\* a record that lacks title, author or puzzle ends the run in a KeyError only
\* when it is the first base run of a puzzle that is listed in a table: a run
\* completes only if no listed puzzle has such a first base run, and a run
\* without the former faults ends in an error only if some puzzle of non-zero
\* delta has one.  No run ends in an AssertionError.
C9_FailsLoudly ==
    /\ median(<<>>) = Raise("IndexError")
    /\ MetricFault(summary.data) => summary.pc \in {"loaded", "by_guesses", "raised"}
    /\ (MetricFault(summary.data) /\ summary.pc = "raised") =>
           summary.exc \in {Raise("KeyError"), Raise("IndexError")}
    /\ summary.pc = "done" => \A q \in AllListed : ~LinkFault(q)
    /\ (summary.pc = "raised" /\ ~MetricFault(summary.data)) =>
           /\ summary.exc = Raise("KeyError")
           /\ \E i \in 1..Len(summary.data) :
                  /\ LinkFault(summary.data[i])
                  /\ (GDelta(summary.data[i]) # 0 \/ TDelta(summary.data[i]) # 0)
    /\ summary.exc # Raise("AssertionError")

\* A run has ended in the KeyError of a record without createElapsedTimeMs,
\* raised while sorting by time, after the sort by guesses succeeded.
C9_Witness ==
    /\ summary.pc = "raised"
    /\ summary.by_guesses # <<>>
    /\ summary.exc = Raise("KeyError")
    /\ summary.stdout = <<>>
    /\ \E r \in RunsOf(summary.data) : "createElapsedTimeMs" \notin DOMAIN r

----------------------------------------------------------------------------
(* gengraph.py, the script: lines 38-130 *)

GraphMaxPuzzles == 2     \* most puzzles of a document that is plotted
GraphMaxRuns == 2        \* most runs of a side of such a puzzle

\* mapper = eval(sys.argv[1]): the expressions explored are lambda x: x[key]
\* for the keys guesses and solveElapsedTimeMs and for a key the records lack.
Mappers == {"guesses", "solveElapsedTimeMs", "time"}

mapper(key, run) == Get(run, key)

RECURSIVE Flatten(_)
Flatten(lists) == IF lists = <<>> THEN <<>> ELSE lists[1] \o Flatten(Tail(lists))

\* (mapper(run) for puzzle in data for run in puzzle[side]), not yet consumed
MappedRuns(key, data, side) ==
    LET runs == Flatten([i \in 1..Len(data) |-> data[i][side]])
    IN  [k \in 1..Len(runs) |-> mapper(key, runs[k])]

\* median(mapper(run) for run in puzzle[side])
puzzle_median(key, puzzle, side) ==
    LET c == Collect([k \in 1..Len(puzzle[side]) |-> mapper(key, puzzle[side][k])])
    IN  IF IsExc(c) THEN c ELSE gengraph_median(c.val)

\* [median(mapper(run) for run in puzzle[0]) for puzzle in data for run in puzzle[0]]
index_labels(key, data) ==
    Collect(Flatten([i \in 1..Len(data) |->
                        [k \in 1..Len(data[i][1]) |-> puzzle_median(key, data[i], 1)]]))

\* list(zip(bases, heads)) of two generators: zip takes a base, then a head,
\* and stops at the first generator that is exhausted, so it consumes one base
\* more than heads when the heads run out first.
zipped(bases, heads) ==
    LET n == Min(Len(bases), Len(heads))
        b == Collect(SubSeq(bases, 1, Min(Len(bases), n + 1)))
        h == Collect(SubSeq(heads, 1, n))
        firstExc(c) == CHOOSE k \in 1..Len(c) : IsExc(c[k]) /\ \A j \in 1..(k - 1) : ~IsExc(c[j])
    IN  IF IsExc(b) /\ IsExc(h)
        THEN IF firstExc(bases) <= firstExc(heads) THEN b ELSE h
        ELSE IF IsExc(b) THEN b
        ELSE IF IsExc(h) THEN h
        ELSE Ok([k \in 1..n |-> [base |-> b.val[k], head |-> h.val[k]]])

\* A mutant of distribution: the medians are left in document order.
distribution_unsorted(medians) ==
    [i \in 1..Len(medians) |-> [y |-> i, x |-> medians[i]]]

\* list(zip([i + 1 for i in range(len(data))], sorted(medians)))
distribution(medians) ==
    LET xs == sorted(medians)
    IN  [i \in 1..Len(medians) |-> [y |-> i, x |-> xs[i]]]

\* The script after json.load(sys.stdin) and eval(mapper_script).
GraphLoaded(data, key) ==
    [pc |-> "loaded", data |-> data, mapper |-> key, exc |-> None,
     compare_data |-> <<>>, base_line |-> <<>>, head_line |-> <<>>,
     ylim |-> None, saved |-> FALSE]

\* compare_data = pd.DataFrame(list(zip(...)), [...], ["base", "head"]),
\* gengraph.py:51-60.  pandas raises ValueError when the number of index
\* labels differs from the number of rows; given no row at all and some labels
\* it either raises or builds a frame of empty (NaN) rows, one per label.
BuildCompareData ==
    /\ graph.pc = "loaded"
    /\ LET rows == zipped(MappedRuns(graph.mapper, graph.data, 1),
                          MappedRuns(graph.mapper, graph.data, 2))
           labels == index_labels(graph.mapper, graph.data)
       IN  \/ graph' =
                 IF IsExc(rows) THEN [graph EXCEPT !.pc = "raised", !.exc = rows]
                 ELSE IF IsExc(labels) THEN [graph EXCEPT !.pc = "raised", !.exc = labels]
                 ELSE IF Len(rows.val) # Len(labels.val)
                 THEN [graph EXCEPT !.pc = "raised", !.exc = Raise("ValueError")]
                 ELSE [graph EXCEPT
                          !.pc = "compare_data",
                          !.compare_data =
                              [k \in 1..Len(rows.val) |->
                                  [index |-> labels.val[k],
                                   base |-> rows.val[k].base,
                                   head |-> rows.val[k].head]]]
           \/ /\ ~IsExc(rows) /\ ~IsExc(labels)
              /\ rows.val = <<>> /\ labels.val # <<>>
              /\ graph' = [graph EXCEPT
                              !.pc = "compare_data",
                              !.compare_data =
                                  [k \in 1..Len(labels.val) |->
                                      [index |-> labels.val[k], base |-> None, head |-> None]]]
    /\ UNCHANGED <<medianCall, deltaCall, tableCall, summary>>

\* The two scatter plots of compare_data, gengraph.py:62-94: what is plotted
\* is the frame, which they leave as it is.
ScatterPlots ==
    /\ graph.pc = "compare_data"
    /\ graph' = [graph EXCEPT !.pc = "scatter"]
    /\ UNCHANGED <<medianCall, deltaCall, tableCall, summary>>

\* The line of the sorted base medians, gengraph.py:96-111
BaseLine ==
    /\ graph.pc = "scatter"
    /\ LET medians == Collect([i \in 1..Len(graph.data) |->
                                  puzzle_median(graph.mapper, graph.data[i], 1)])
       IN  graph' = IF IsExc(medians)
                    THEN [graph EXCEPT !.pc = "raised", !.exc = medians]
                    ELSE [graph EXCEPT !.pc = "base_line",
                                       !.base_line = distribution(medians.val)]
    /\ UNCHANGED <<medianCall, deltaCall, tableCall, summary>>

\* The line of the sorted head medians and the y limits, gengraph.py:112-128
HeadLine ==
    /\ graph.pc = "base_line"
    /\ LET medians == Collect([i \in 1..Len(graph.data) |->
                                  puzzle_median(graph.mapper, graph.data[i], 2)])
       IN  graph' = IF IsExc(medians)
                    THEN [graph EXCEPT !.pc = "raised", !.exc = medians]
                    ELSE [graph EXCEPT
                             !.pc = "head_line",
                             !.head_line = distribution(medians.val),
                             !.ylim = [bottom |-> Len(graph.data) \div 2,
                                       top |-> Len(graph.data) + 1]]
    /\ UNCHANGED <<medianCall, deltaCall, tableCall, summary>>

\* plt.savefig(outfilename, format="png"), gengraph.py:130
SaveFig ==
    /\ graph.pc = "head_line"
    /\ graph' = [graph EXCEPT !.pc = "saved", !.saved = TRUE]
    /\ UNCHANGED <<medianCall, deltaCall, tableCall, summary>>

GraphNext ==
    \/ BuildCompareData
    \/ ScatterPlots
    \/ BaseLine
    \/ HeadLine
    \/ SaveFig

----------------------------------------------------------------------------
(* Specification SpecGraph: gengraph.py on documents of complete records.   *)
(* The measurements of puzzle i lie in 100*i + 0..9 (base) and              *)
(* 100*i + 10..19 (head), so that a measurement tells its puzzle and side.  *)

RunPattern == <<2, 0, 3, 1>>

\* Run k of side (1 base, 2 head) of puzzle i; the two keys order the runs in
\* opposite ways.
GraphRun(i, side, k) ==
    LET v == 100 * i + 10 * (side - 1) + RunPattern[((k - 1) % 4) + 1]
    IN  RunData(str(i), <<"a">>, <<"p">>, v, 1000 - v, 1)

GraphPuzzle(i, nb, nh) ==
    << [k \in 1..nb |-> GraphRun(i, 1, k)], [k \in 1..nh |-> GraphRun(i, 2, k)] >>

\* The documents whose puzzles have the numbers of runs that shape names.
GraphDocuments ==
    {[i \in 1..Len(shape) |-> GraphPuzzle(i, shape[i][1], shape[i][2])] :
        shape \in SeqsUpTo((0..GraphMaxRuns) \X (0..GraphMaxRuns), GraphMaxPuzzles)}

GraphInit ==
    /\ graph \in {GraphLoaded(data, key) : data \in GraphDocuments, key \in Mappers}
    /\ medianCall = Idle
    /\ deltaCall = Idle
    /\ tableCall = Idle
    /\ summary = Idle

SpecGraph == GraphInit /\ [][GraphNext]_vars

GraphRank ==
    [loaded |-> 0, compare_data |-> 1, scatter |-> 2, base_line |-> 3,
     head_line |-> 4, saved |-> 5, raised |-> -1, idle |-> -1]

GraphReached(step) == GraphRank[graph.pc] >= GraphRank[step]

\* The measurements of one side of a puzzle, read off the records.
Measured(puzzle, side) ==
    [k \in 1..Len(puzzle[side]) |-> puzzle[side][k][graph.mapper]]

\* Every puzzle has m base runs and m head runs.
Uniform(m) ==
    \A i \in 1..Len(graph.data) :
        Len(graph.data[i][1]) = m /\ Len(graph.data[i][2]) = m

\* A line of the distribution plot of one side: a point per puzzle, of ranks
\* 1..N, the values the medians of the puzzles in non-decreasing order.
SortedDistribution(line, side) ==
    /\ Len(line) = Len(graph.data)
    /\ \A i \in 1..Len(line) : line[i].y = i
    /\ \A i, j \in 1..Len(line) : i < j => line[i].x <= line[j].x
    /\ {line[i].x : i \in 1..Len(line)}
         = {LowerMedianOf(Measured(graph.data[i], side)) : i \in 1..Len(graph.data)}

\* C7: on a document of N puzzles with M base and M head runs each, and a
\* mapper the records answer, compare_data has N*M rows; and, the runs being
\* there (M >= 1, or no puzzle at all), the run does not fail and each of the
\* two distribution lines has N points, of ranks 1..N and non-decreasing
\* values, one median per puzzle.
C7_Counts ==
    LET N == Len(graph.data)
        M == IF N = 0 THEN 0 ELSE Len(graph.data[1][1])
    IN  (graph.pc # "idle" /\ graph.mapper \in {"guesses", "solveElapsedTimeMs"} /\ Uniform(M)) =>
            /\ GraphReached("compare_data") => Len(graph.compare_data) = N * M
            /\ (M >= 1 \/ N = 0) =>
                   /\ graph.pc # "raised"
                   /\ GraphReached("base_line") => SortedDistribution(graph.base_line, 1)
                   /\ GraphReached("head_line") => SortedDistribution(graph.head_line, 2)

\* The figure of two puzzles of two runs a side, mapped by the key that orders
\* the puzzles downwards, has been saved.
C7_Witness ==
    /\ graph.pc = "saved"
    /\ graph.mapper = "solveElapsedTimeMs"
    /\ Len(graph.data) = 2
    /\ Uniform(2)
    /\ Len(graph.compare_data) = 4

TotalRuns(side) == Len(Flatten([i \in 1..Len(graph.data) |-> graph.data[i][side]]))

\* C10, read in its favour (no run list is empty): whenever compare_data is
\* built from a document with as many base runs as head runs in all, each row
\* belongs to one puzzle, also when a puzzle has more base than head runs or
\* fewer: its base is a
\* measurement of a base run of a puzzle p, its head one of a head run of the
\* same p, and its index label the lower median of the base measurements of p.
C10_RowsOfOnePuzzle ==
    (/\ GraphReached("compare_data")
     /\ TotalRuns(1) = TotalRuns(2)
     /\ \A i \in 1..Len(graph.data) : graph.data[i][1] # <<>> /\ graph.data[i][2] # <<>>) =>
        \A k \in 1..Len(graph.compare_data) :
            \E i \in 1..Len(graph.data) :
                /\ graph.compare_data[k].base \in Range(Measured(graph.data[i], 1))
                /\ graph.compare_data[k].head \in Range(Measured(graph.data[i], 2))
                /\ graph.compare_data[k].index = LowerMedianOf(Measured(graph.data[i], 1))

====
